---- MODULE Spec2Model ----
\* A model of chapter4/crawler.py: the SqliteIndex store (five append-only
\* tables, rowid = position in the table) and Crawler.crawl (a depth-limited
\* recursion over frontiers of URLs).
EXTENDS Integers, Sequences, FiniteSets, TLC

\* ---------------------------------------------------------------- bounds
\* number of direct store calls in one behaviour
MaxOps == 2
\* largest depth argument of crawl (the smallest is -1)
MaxDepth == 2
\* a store fault hits the 1st..MaxFault-th store step of a call
MaxFault == 4

\* ------------------------------------------------------- strings and URLs
\* A string is a sequence of one-character strings. A URL is kept as the
\* parts is_valid_link reads: its scheme, whether it holds a single quote,
\* and the rest (loc).
Url(s, l) == [scheme |-> s, loc |-> l, quote |-> FALSE]

Ua == Url("http", "a")

Ub == Url("https", "b")

Uc == Url("http", "c")

Uftp == Url("ftp", "d")

Uquote == [scheme |-> "https", loc |-> "e", quote |-> TRUE]

URLS == {Ua, Ub, Uc}

\* the URLs direct callers hand to the store
CALL_URLS == {Ua, Ub}

wPy == <<"p", "y">>

wDb == <<"d", "b">>

WORDS == {wPy, wDb}

\* the word lists direct callers hand to add_index and add_link_ref: empty,
\* one word, a repeated word, two words, a word repeated around another
WORDSEQS == {<<>>, <<wPy>>, <<wPy, wPy>>, <<wDb, wPy>>, <<wPy, wDb, wPy>>}

\* ------------------------------------------------------------- tokenizer
IGNORE_WORDS ==
    << <<"t","h","e">>, <<"o","f">>, <<"t","o">>, <<"a","n","d">>,
       <<"a">>, <<"i","n">>, <<"i","s">>, <<"i","t">> >>

LowerCase == <<"a","b","c","d","e","f","g","h","i","j","k","l","m",
               "n","o","p","q","r","s","t","u","v","w","x","y","z">>

UpperCase == <<"A","B","C","D","E","F","G","H","I","J","K","L","M",
               "N","O","P","Q","R","S","T","U","V","W","X","Y","Z">>

Digits == <<"0","1","2","3","4","5","6","7","8","9">>

Range(f) == {f[i] : i \in DOMAIN f}

\* the characters \w matches (the ASCII part)
IsWordChar(c) == c \in Range(LowerCase) \cup Range(UpperCase) \cup Range(Digits) \cup {"_"}

\* str.lower() on one character
LowerChar(c) ==
    IF c \in Range(UpperCase)
    THEN LowerCase[CHOOSE i \in DOMAIN UpperCase : UpperCase[i] = c]
    ELSE c

Lower(s) == [i \in DOMAIN s |-> LowerChar(s[i])]

\* re.compile(r'\W+').split(text): the fragments between runs of non-word
\* characters, an empty fragment where the text starts or ends with a run.
RECURSIVE SplitFrom(_, _, _, _, _)
SplitFrom(text, i, out, cur, inSep) ==
    IF i > Len(text) THEN Append(out, cur)
    ELSE IF IsWordChar(text[i])
         THEN SplitFrom(text, i + 1, out, Append(cur, text[i]), FALSE)
         ELSE IF inSep
              THEN SplitFrom(text, i + 1, out, cur, TRUE)
              ELSE SplitFrom(text, i + 1, Append(out, cur), <<>>, TRUE)

Split(text) == SplitFrom(text, 1, <<>>, <<>>, FALSE)

RECURSIVE FilterSeq(_, _)
FilterSeq(s, keep) ==
    IF s = <<>> THEN <<>>
    ELSE IF Head(s) \in keep
         THEN <<Head(s)>> \o FilterSeq(Tail(s), keep)
         ELSE FilterSeq(Tail(s), keep)

\* mutant: the stop words are taken out before the fragments are lower-cased
words_from_text_filter_first(text, ignore_words) ==
    LET frags == Split(text)
        nonempty == FilterSeq(frags, Range(frags) \ ({<<>>} \cup Range(ignore_words)))
    IN [i \in DOMAIN nonempty |-> Lower(nonempty[i])]

words_from_text(text, ignore_words) ==
    LET frags == Split(text)
        nonempty == FilterSeq(frags, Range(frags) \ {<<>>})
        words == [i \in DOMAIN nonempty |-> Lower(nonempty[i])]
    IN FilterSeq(words, Range(words) \ Range(ignore_words))

\* ------------------------------------------------------------- the store
\* None: fetchone() found no row
None == 0

\* pending: the rows inserted since the last conn.commit()
init_database ==
    [url_list |-> <<>>, word_list |-> <<>>, word_location |-> <<>>,
     link |-> <<>>, link_words |-> <<>>, pending |-> 0]

\* SELECT rowid FROM table WHERE column = value; fetchone()
SelectRowid(list, value) ==
    IF \E i \in DOMAIN list : list[i] = value
    THEN CHOOSE i \in DOMAIN list :
            list[i] = value /\ \A j \in 1..(i - 1) : list[j] # value
    ELSE None

\* mutant: no conn.commit() after the INSERT
get_entry_id_no_commit(d, table, value, create_if_not_exist) ==
    LET result == SelectRowid(d[table], value)
    IN IF result # None
       THEN [db |-> d, ret |-> result, exc |-> "none"]
       ELSE IF create_if_not_exist
            THEN [db |-> [d EXCEPT ![table] = Append(@, value), !.pending = @ + 1],
                  ret |-> Len(d[table]) + 1, exc |-> "none"]
            ELSE [db |-> d, ret |-> None, exc |-> "ValueError"]

\* mutant: the new record is put in front of the table
get_entry_id_inserts_first(d, table, value, create_if_not_exist) ==
    LET result == SelectRowid(d[table], value)
    IN IF result # None
       THEN [db |-> d, ret |-> result, exc |-> "none"]
       ELSE IF create_if_not_exist
            THEN [db |-> [d EXCEPT ![table] = <<value>> \o @, !.pending = 0],
                  ret |-> 1, exc |-> "none"]
            ELSE [db |-> d, ret |-> None, exc |-> "ValueError"]

\* mutant: no SELECT before the INSERT
get_entry_id_always_insert(d, table, value, create_if_not_exist) ==
    IF create_if_not_exist
    THEN [db |-> [d EXCEPT ![table] = Append(@, value), !.pending = 0],
          ret |-> Len(d[table]) + 1, exc |-> "none"]
    ELSE LET result == SelectRowid(d[table], value)
         IN IF result # None
            THEN [db |-> d, ret |-> result, exc |-> "none"]
            ELSE [db |-> d, ret |-> None, exc |-> "ValueError"]

\* mutant: the row count before the INSERT is returned as the new id
get_entry_id_stale_rowid(d, table, value, create_if_not_exist) ==
    LET result == SelectRowid(d[table], value)
    IN IF result # None
       THEN [db |-> d, ret |-> result, exc |-> "none"]
       ELSE IF create_if_not_exist
            THEN [db |-> [d EXCEPT ![table] = Append(@, value), !.pending = 0],
                  ret |-> Len(d[table]), exc |-> "none"]
            ELSE [db |-> d, ret |-> None, exc |-> "ValueError"]

\* mutant: create_if_not_exist is not looked at
get_entry_id_creates_anyway(d, table, value, create_if_not_exist) ==
    LET result == SelectRowid(d[table], value)
    IN IF result # None
       THEN [db |-> d, ret |-> result, exc |-> "none"]
       ELSE [db |-> [d EXCEPT ![table] = Append(@, value), !.pending = 0],
             ret |-> Len(d[table]) + 1, exc |-> "none"]

get_entry_id(d, table, value, create_if_not_exist) ==
    LET result == SelectRowid(d[table], value)
    IN IF result # None
       THEN [db |-> d, ret |-> result, exc |-> "none"]
       ELSE IF create_if_not_exist
            THEN [db |-> [d EXCEPT ![table] = Append(@, value), !.pending = 0],
                  ret |-> Len(d[table]) + 1, exc |-> "none"]
            ELSE [db |-> d, ret |-> None, exc |-> "ValueError"]

\* mutant: the URL record alone counts as indexed
is_indexed_record_only(d, url) == SelectRowid(d.url_list, url) # None

is_indexed(d, url) ==
    LET result == SelectRowid(d.url_list, url)
    IN IF result = None THEN FALSE
       ELSE \E i \in DOMAIN d.word_location : d.word_location[i].url_id = result

\* A store fault is a countdown over the store steps of a call (a
\* get_entry_id, or an INSERT): 0 = no fault, 1 = the next step raises.
Dec(fault) == IF fault = 0 THEN 0 ELSE fault - 1

\* mutant: positions counted from 1
RECURSIVE add_index_loop_one_based(_, _, _, _, _)
add_index_loop_one_based(d, url_id, words, idx, fault) ==
    IF idx = Len(words) THEN [db |-> [d EXCEPT !.pending = 0], exc |-> "none"]
    ELSE IF fault = 1 THEN [db |-> d, exc |-> "StoreError"]
    ELSE LET r == get_entry_id(d, "word_list", words[idx + 1], TRUE)
             row == [url_id |-> url_id, word_id |-> r.ret, location |-> idx + 1]
         IN IF Dec(fault) = 1 THEN [db |-> r.db, exc |-> "StoreError"]
            ELSE add_index_loop_one_based(
                    [r.db EXCEPT !.word_location = Append(@, row),
                                 !.pending = @ + 1],
                    url_id, words, idx + 1, Dec(Dec(fault)))

\* the loop of add_index, from the word at 0-based position idx on
RECURSIVE add_index_loop(_, _, _, _, _)
add_index_loop(d, url_id, words, idx, fault) ==
    IF idx = Len(words) THEN [db |-> [d EXCEPT !.pending = 0], exc |-> "none"]
    ELSE IF fault = 1 THEN [db |-> d, exc |-> "StoreError"]
    ELSE LET r == get_entry_id(d, "word_list", words[idx + 1], TRUE)
             row == [url_id |-> url_id, word_id |-> r.ret, location |-> idx]
         IN IF Dec(fault) = 1 THEN [db |-> r.db, exc |-> "StoreError"]
            ELSE add_index_loop([r.db EXCEPT !.word_location = Append(@, row),
                                             !.pending = @ + 1],
                                url_id, words, idx + 1, Dec(Dec(fault)))

\* mutant: no is_indexed check
add_index_no_check(d, url, words, fault) ==
    LET r == get_entry_id(d, "url_list", url, TRUE)
    IN add_index_loop(r.db, r.ret, words, 0, Dec(fault))

add_index(d, url, words, fault) ==
    IF is_indexed(d, url) THEN [db |-> d, exc |-> "none"]
    ELSE IF fault = 1 THEN [db |-> d, exc |-> "StoreError"]
    ELSE LET r == get_entry_id(d, "url_list", url, TRUE)
         IN add_index_loop(r.db, r.ret, words, 0, Dec(fault))

\* mutant: the words of a link are inserted into word_location
RECURSIVE add_link_ref_loop_posts(_, _, _, _, _)
add_link_ref_loop_posts(d, link_id, link_words, idx, fault) ==
    IF idx = Len(link_words)
    THEN [db |-> [d EXCEPT !.pending = 0], exc |-> "none", fault |-> fault]
    ELSE IF fault = 1 THEN [db |-> d, exc |-> "StoreError", fault |-> 0]
    ELSE LET r == get_entry_id(d, "word_list", link_words[idx + 1], TRUE)
             row == [url_id |-> link_id, word_id |-> r.ret, location |-> idx]
         IN IF Dec(fault) = 1 THEN [db |-> r.db, exc |-> "StoreError", fault |-> 0]
            ELSE add_link_ref_loop_posts([r.db EXCEPT !.word_location = Append(@, row),
                                                      !.pending = @ + 1],
                                         link_id, link_words, idx + 1, Dec(Dec(fault)))

\* the loop of add_link_ref over link_words
RECURSIVE add_link_ref_loop(_, _, _, _, _)
add_link_ref_loop(d, link_id, link_words, idx, fault) ==
    IF idx = Len(link_words)
    THEN [db |-> [d EXCEPT !.pending = 0], exc |-> "none", fault |-> fault]
    ELSE IF fault = 1 THEN [db |-> d, exc |-> "StoreError", fault |-> 0]
    ELSE LET r == get_entry_id(d, "word_list", link_words[idx + 1], TRUE)
             row == [link_id |-> link_id, word_id |-> r.ret]
         IN IF Dec(fault) = 1 THEN [db |-> r.db, exc |-> "StoreError", fault |-> 0]
            ELSE add_link_ref_loop([r.db EXCEPT !.link_words = Append(@, row),
                                                !.pending = @ + 1],
                                   link_id, link_words, idx + 1, Dec(Dec(fault)))

\* mutant: no from_id == to_id check
add_link_ref_no_self_check(d, url_from, url_to, link_words, fault) ==
    LET f == get_entry_id(d, "url_list", url_from, TRUE)
        t == get_entry_id(f.db, "url_list", url_to, TRUE)
    IN add_link_ref_loop(
          [t.db EXCEPT !.link = Append(@, [from_id |-> f.ret, to_id |-> t.ret]),
                       !.pending = @ + 1],
          Len(t.db.link) + 1, link_words, 0, 0)

\* mutant: an edge the link table already holds is not inserted again
add_link_ref_dedup(d, url_from, url_to, link_words, fault) ==
    LET f == get_entry_id(d, "url_list", url_from, TRUE)
        t == get_entry_id(f.db, "url_list", url_to, TRUE)
        edge == [from_id |-> f.ret, to_id |-> t.ret]
    IN IF f.ret = t.ret \/ edge \in Range(t.db.link)
       THEN [db |-> t.db, exc |-> "none", fault |-> 0]
       ELSE add_link_ref_loop([t.db EXCEPT !.link = Append(@, edge), !.pending = @ + 1],
                              Len(t.db.link) + 1, link_words, 0, 0)

\* Returns the store, the exception raised and what is left of the fault
\* countdown for the caller's next store call.
add_link_ref(d, url_from, url_to, link_words, fault) ==
    IF fault = 1 THEN [db |-> d, exc |-> "StoreError", fault |-> 0]
    ELSE LET f == get_entry_id(d, "url_list", url_from, TRUE)
         IN IF Dec(fault) = 1 THEN [db |-> f.db, exc |-> "StoreError", fault |-> 0]
            ELSE LET t == get_entry_id(f.db, "url_list", url_to, TRUE)
                     left == Dec(Dec(fault))
                 IN IF f.ret = t.ret THEN [db |-> t.db, exc |-> "none", fault |-> left]
                    ELSE IF left = 1 THEN [db |-> t.db, exc |-> "StoreError", fault |-> 0]
                    ELSE add_link_ref_loop(
                            [t.db EXCEPT !.link = Append(@, [from_id |-> f.ret, to_id |-> t.ret]),
                                         !.pending = @ + 1],
                            Len(t.db.link) + 1, link_words, 0, Dec(left))

\* ------------------------------------------------------------ the crawler
\* A fetched page, as the crawler reads it: text is get_text_only(soup),
\* anchors are soup('a') in document order, each with get_text_only(link)
\* and its href: absent ("none"), an absolute URL with or without a
\* fragment ("abs"), a fragment only such as "#top" ("frag"), or one urljoin
\* rejects with ValueError, such as "http://[" ("bad").
Href(kind, url, frag) == [kind |-> kind, url |-> url, frag |-> frag]

Anchor(text, href) == [text |-> text, href |-> href]

Page(text, anchors) == [text |-> text, anchors |-> anchors]

\* a chain a -> b -> c
WebChain ==
    (Ua :> Page(<<"P","y"," ","d","b">>,
                << Anchor(<<"t","h","e"," ","P","y">>, Href("abs", Ub, FALSE)) >>)) @@
    (Ub :> Page(<<"d","b","-","d","b">>,
                << Anchor(<<>>, Href("abs", Uc, TRUE)) >>)) @@
    (Uc :> Page(<<"p","y">>, <<>>))

\* a cycle a -> b -> a, two anchors to b, a link of a to itself, a page of
\* stop words only and an empty page
WebCycle ==
    (Ua :> Page(<<"p","y">>,
                << Anchor(<<"D","b">>, Href("abs", Ub, FALSE)),
                   Anchor(<<"d","b"," ","d","b">>, Href("abs", Ub, FALSE)),
                   Anchor(<<"p","y">>, Href("frag", Ua, TRUE)) >>)) @@
    (Ub :> Page(<<"t","h","e">>,
                << Anchor(<<"p","y">>, Href("abs", Ua, FALSE)) >>)) @@
    (Uc :> Page(<<>>, <<>>))

\* anchors without href, links that are not valid, an href urljoin rejects
WebBad ==
    (Ua :> Page(<<"d","b">>,
                << Anchor(<<"p","y">>, Href("none", Ua, FALSE)),
                   Anchor(<<"p","y">>, Href("abs", Uftp, FALSE)),
                   Anchor(<<"p","y">>, Href("abs", Uquote, FALSE)),
                   Anchor(<<"p","y">>, Href("abs", Uc, FALSE)) >>)) @@
    (Ub :> Page(<<"p","y">>,
                << Anchor(<<"d","b">>, Href("abs", Ua, FALSE)) >>)) @@
    (Uc :> Page(<<"P","y">>,
                << Anchor(<<"d","b">>, Href("abs", Ub, FALSE)),
                   Anchor(<<"d","b">>, Href("bad", Uc, FALSE)) >>))

WEBS == {WebChain, WebCycle, WebBad}

is_valid_link(url) == ~url.quote /\ url.scheme \in {"http", "https"}

\* urldefrag(urljoin(url, link['href']))[0]
Resolve(url, href) == IF href.kind = "frag" THEN url ELSE href.url

get_words(page) == words_from_text(page.text, IGNORE_WORDS)

get_valid_links(url, page) ==
    LET HasHref(a) == a.href.kind # "none"
        links == SelectSeq(page.anchors, HasHref)
        link_infos == [i \in DOMAIN links |->
                         [text |-> links[i].text, url |-> Resolve(url, links[i].href)]]
        Clean(link_info) == is_valid_link(link_info.url)
    IN IF \E i \in DOMAIN links : links[i].href.kind = "bad"
       THEN [exc |-> "ValueError", links |-> <<>>]
       ELSE [exc |-> "none", links |-> SelectSeq(link_infos, Clean)]

\* What the outside world does to one pass of the loop: where the fetch or
\* the parse fails, and where the store raises.
ENVS ==
    [fail_at : {"none", "get_content", "get_words"},
     fault_in : {"none"}, fault : {0}]
    \cup [fail_at : {"none"}, fault_in : {"add_index", "add_link_ref"},
          fault : 1..MaxFault]

\* do_index: get_words, then add_index
do_index(d, url, page, env) ==
    IF env.fail_at = "get_words" THEN [db |-> d, exc |-> "ParseError"]
    ELSE add_index(d, url, get_words(page),
                   IF env.fault_in = "add_index" THEN env.fault ELSE 0)

\* mutant: a link to the page itself or to an indexed URL is kept out of
\* next_urls
RECURSIVE link_loop_skips_known(_, _, _, _, _, _)
link_loop_skips_known(d, url, links, idx, fault, next) ==
    IF idx > Len(links) THEN [db |-> d, exc |-> "none", next |-> next]
    ELSE LET r == add_link_ref(d, url, links[idx].url,
                               words_from_text(links[idx].text, IGNORE_WORDS), fault)
         IN IF r.exc # "none" THEN [db |-> r.db, exc |-> r.exc, next |-> next]
            ELSE link_loop_skips_known(r.db, url, links, idx + 1, r.fault,
                    IF links[idx].url = url \/ is_indexed(r.db, links[idx].url)
                    THEN next ELSE next \cup {links[idx].url})

\* the else branch of the loop body of crawl, from the link at idx on
RECURSIVE link_loop(_, _, _, _, _, _)
link_loop(d, url, links, idx, fault, next) ==
    IF idx > Len(links) THEN [db |-> d, exc |-> "none", next |-> next]
    ELSE LET r == add_link_ref(d, url, links[idx].url,
                               words_from_text(links[idx].text, IGNORE_WORDS), fault)
         IN IF r.exc # "none" THEN [db |-> r.db, exc |-> r.exc, next |-> next]
            ELSE link_loop(r.db, url, links, idx + 1, r.fault,
                           next \cup {links[idx].url})

Result(d, exc, next, outcome) ==
    [db |-> d, exc |-> exc, next |-> next, outcome |-> outcome]

\* mutant: the else branch is inside the try as well
crawl_url_links_guarded(d, url, page, env, next) ==
    IF env.fail_at = "get_content" THEN Result(d, "none", next, "fetch_failed")
    ELSE LET i == do_index(d, url, page, env)
         IN IF i.exc # "none"
            THEN Result(i.db, "none", next,
                        IF i.exc = "ParseError" THEN "parse_failed" ELSE "index_failed")
            ELSE LET g == get_valid_links(url, page)
                 IN IF g.exc # "none" THEN Result(i.db, "none", next, "links_failed")
                    ELSE LET l == link_loop(i.db, url, g.links, 1,
                                    IF env.fault_in = "add_link_ref" THEN env.fault ELSE 0,
                                    next)
                         IN Result(l.db, "none", l.next,
                                   IF l.exc = "none" THEN "indexed" ELSE "link_ref_failed")

\* mutant: a failed fetch is not caught
crawl_url_fetch_raises(d, url, page, env, next) ==
    IF env.fail_at = "get_content"
    THEN Result(d, "FetchError", next, "fetch_failed")
    ELSE crawl_url_links_guarded(d, url, page, env, next)

\* One pass of the loop of crawl over a URL that is not indexed. exc is the
\* exception that leaves crawl ("none": the loop goes on).
crawl_url(d, url, page, env, next) ==
    IF env.fail_at = "get_content" THEN Result(d, "none", next, "fetch_failed")
    ELSE LET i == do_index(d, url, page, env)
         IN IF i.exc # "none"
            THEN Result(i.db, "none", next,
                        IF i.exc = "ParseError" THEN "parse_failed" ELSE "index_failed")
            ELSE LET g == get_valid_links(url, page)
                 IN IF g.exc # "none" THEN Result(i.db, g.exc, next, "links_failed")
                    ELSE LET l == link_loop(i.db, url, g.links, 1,
                                    IF env.fault_in = "add_link_ref" THEN env.fault ELSE 0,
                                    next)
                         IN Result(l.db, l.exc, l.next,
                                   IF l.exc = "none" THEN "indexed" ELSE "link_ref_failed")

\* mutant: the frontier is not filtered
not_indexed_url_unfiltered(d, url) == TRUE

\* the condition of the generator not_indexed_url, evaluated when the loop
\* pulls url
not_indexed_url(d, url) == is_indexed(d, url) = FALSE

\* mutant: the loop is left with one URL still to come
exhausted_early(frontier) == Len(frontier) <= 1

\* the for loop ends: the generator over the frontier has no URL left
exhausted(frontier) == frontier = <<>>

\* mutant: depth is not decremented
next_depth_not_decremented(d) == d

\* depth -= 1
next_depth(d) == d - 1

\* The interpreter's recursion limit, scaled down: above every depth >= 1
\* the model passes to crawl, so only a depth that never reaches 0 meets it.
RecursionLimit == MaxDepth + 1

DEPTHS == -1..MaxDepth

SEEDS == {<<>>, <<Ua>>, <<Ub>>, <<Ua, Ua>>, <<Ua, Ub>>, <<Uc, Ua>>}

\* mutant: next_urls is a list, a URL found twice is listed twice
Orders_with_repeats(S) == {o \in [1..(Cardinality(S) + 1) -> S] : Range(o) = S}

\* the orders in which a set can be iterated
Orders(S) == {o \in [1..Cardinality(S) -> S] : Range(o) = S}

\* ------------------------------------------------------------------ state
VARIABLES
    db,         \* the five tables of the SqliteIndex
    nOps,       \* number of direct store calls made so far
    lastOp,     \* history: the last operation, its arguments and what it saw
    web,        \* the page each URL serves
    pc,         \* crawl: "idle", "loop", "returned" or "raised"
    urls,       \* crawl: what is left of the frontier being iterated
    depth,      \* crawl: the depth argument of the running call
    next_urls,  \* crawl: the next frontier, so far
    frames,     \* crawl: number of nested calls of crawl
    exc,        \* crawl: the exception that left crawl
    seeds0,     \* history: the URLs the crawl was started with
    depth0,     \* history: the depth the crawl was started with
    extracted,  \* history: the links (from, to) the crawl has extracted
    called,     \* history: the URLs add_index has been called for
    fetches,    \* history: per URL, the calls of get_content in this pass
    wrote,      \* history: per URL, the passes of the loop in this pass of
                \* the frontier that inserted postings
    failed,     \* history: how passes of the loop of this crawl have failed:
                \* "skipped" (the except branch), "links_failed",
                \* "link_ref_failed"
    indexed0,   \* history: the URLs indexed when crawl was called
    written,    \* history: per URL, the passes of the loop in this crawl in
                \* which do_index returned and the else branch was entered
    input,      \* the argument of a pure function under check
    output,     \* its result
    conc        \* two workers in add_index: the call, each worker's position
                \* and locals, each connection's open transaction, the
                \* connection holding the write lock of the database file

passVars == <<fetches, wrote, failed, indexed0, written>>

funVars == <<input, output, conc>>

crawlVars == <<web, pc, urls, depth, next_urls, frames, exc,
               seeds0, depth0, extracted, called>>

vars == <<db, nOps, lastOp, web, pc, urls, depth, next_urls, frames, exc,
          seeds0, depth0, extracted, called, fetches, wrote, failed,
          indexed0, written, input, output, conc>>

NoOp == [op |-> "none", url |-> Ua, url_to |-> Ua, words |-> <<>>,
         was_indexed |-> FALSE, outcome |-> "none", env |-> "none",
         table |-> "none", create |-> FALSE, ret |-> None]

NoCalls == [u \in URLS |-> 0]

\* the workers that share the database file, each with its own SqliteIndex
WORKERS == {1, 2}

\* a connection without an open transaction
NoTx == [url_list |-> <<>>, word_list |-> <<>>, word_location |-> <<>>]

NoConc == [url |-> Ua, words |-> <<>>,
           pcw |-> [w \in WORKERS |-> "idle"],
           table |-> [w \in WORKERS |-> "none"],
           url_id |-> [w \in WORKERS |-> None],
           word_id |-> [w \in WORKERS |-> None],
           idx |-> [w \in WORKERS |-> 0],
           tx |-> [w \in WORKERS |-> NoTx],
           writer |-> None,
           saw_indexed |-> [w \in WORKERS |-> FALSE],
           overlap |-> FALSE]

CrawlIdle ==
    /\ pc = "idle"
    /\ urls = <<>>
    /\ depth = 0
    /\ next_urls = {}
    /\ frames = 0
    /\ exc = "none"
    /\ seeds0 = {}
    /\ depth0 = 0
    /\ extracted = {}
    /\ called = {}
    /\ fetches = NoCalls
    /\ wrote = NoCalls
    /\ failed = {}
    /\ indexed0 = {}
    /\ written = NoCalls
    /\ input = <<>>
    /\ output = <<>>
    /\ conc = NoConc

Init ==
    /\ db = init_database
    /\ nOps = 0
    /\ lastOp = NoOp
    /\ web = WebChain
    /\ CrawlIdle

\* ------------------------------------------------- direct calls of the store
AddIndex(url, words) ==
    /\ pc = "idle"
    /\ nOps < MaxOps
    /\ db' = add_index(db, url, words, 0).db
    /\ nOps' = nOps + 1
    /\ lastOp' = [NoOp EXCEPT !.op = "add_index", !.url = url, !.words = words,
                              !.was_indexed = is_indexed(db, url)]
    /\ called' = called \cup {url}
    /\ UNCHANGED <<web, pc, urls, depth, next_urls, frames, exc,
                   seeds0, depth0, extracted>>
    /\ UNCHANGED <<passVars, funVars>>

AddLinkRef(url_from, url_to, link_words) ==
    /\ pc = "idle"
    /\ nOps < MaxOps
    /\ db' = add_link_ref(db, url_from, url_to, link_words, 0).db
    /\ nOps' = nOps + 1
    /\ lastOp' = [NoOp EXCEPT !.op = "add_link_ref", !.url = url_from,
                              !.url_to = url_to, !.words = link_words,
                              !.was_indexed = is_indexed(db, url_from)]
    /\ UNCHANGED <<crawlVars, passVars, funVars>>

\* get_entry_id('url_list', 'url', value, create_if_not_exist)
GetUrlId(value, create_if_not_exist) ==
    /\ pc = "idle"
    /\ nOps < MaxOps
    /\ LET r == get_entry_id(db, "url_list", value, create_if_not_exist)
       IN /\ db' = r.db
          /\ lastOp' = [NoOp EXCEPT !.op = "get_entry_id", !.table = "url_list",
                                    !.url = value, !.create = create_if_not_exist,
                                    !.ret = r.ret, !.outcome = r.exc,
                                    !.was_indexed = is_indexed(db, value)]
    /\ nOps' = nOps + 1
    /\ UNCHANGED <<crawlVars, passVars, funVars>>

\* get_entry_id('word_list', 'word', value, create_if_not_exist)
GetWordId(value, create_if_not_exist) ==
    /\ pc = "idle"
    /\ nOps < MaxOps
    /\ LET r == get_entry_id(db, "word_list", value, create_if_not_exist)
       IN /\ db' = r.db
          /\ lastOp' = [NoOp EXCEPT !.op = "get_entry_id", !.table = "word_list",
                                    !.words = <<value>>, !.create = create_if_not_exist,
                                    !.ret = r.ret, !.outcome = r.exc]
    /\ nOps' = nOps + 1
    /\ UNCHANGED <<crawlVars, passVars, funVars>>

\* is_indexed(url)
IsIndexed(url) ==
    /\ pc = "idle"
    /\ nOps < MaxOps
    /\ lastOp' = [NoOp EXCEPT !.op = "is_indexed", !.url = url,
                              !.was_indexed = is_indexed(db, url)]
    /\ nOps' = nOps + 1
    /\ UNCHANGED <<db, crawlVars, passVars, funVars>>

Next ==
    \/ \E u \in CALL_URLS : IsIndexed(u)
    \/ \E u \in CALL_URLS, w \in WORDSEQS : AddIndex(u, w)
    \/ \E a \in CALL_URLS, b \in CALL_URLS, w \in WORDSEQS : AddLinkRef(a, b, w)
    \/ \E u \in CALL_URLS, c \in BOOLEAN : GetUrlId(u, c)
    \/ \E w \in WORDS, c \in BOOLEAN : GetWordId(w, c)

Spec == Init /\ [][Next]_vars

\* ------------------------------------------------------------------- crawl
\* stores a crawl may start on: empty, or filled by earlier calls
STORES0 ==
    {init_database,
     add_index(init_database, Ub, <<wPy>>, 0).db,
     add_link_ref(init_database, Ua, Uc, <<wDb>>, 0).db,
     add_link_ref(init_database, Ub, Ub, <<wPy>>, 0).db,
     get_entry_id(get_entry_id(init_database, "word_list", wDb, TRUE).db,
                  "url_list", Uc, TRUE).db}

CrawlInit ==
    /\ db \in STORES0
    /\ nOps = 0
    /\ lastOp = NoOp
    /\ web \in WEBS
    /\ CrawlIdle

\* crawl(urls, depth) is called
CrawlStart(seeds, d) ==
    /\ pc = "idle"
    /\ pc' = "loop"
    /\ urls' = seeds
    /\ depth' = d
    /\ next_urls' = {}
    /\ frames' = 1
    /\ seeds0' = Range(seeds)
    /\ depth0' = d
    /\ lastOp' = [NoOp EXCEPT !.op = "crawl"]
    /\ fetches' = NoCalls
    /\ wrote' = NoCalls
    /\ failed' = {}
    /\ indexed0' = {u \in URLS : is_indexed(db, u)}
    /\ written' = NoCalls
    /\ UNCHANGED <<db, nOps, web, exc, extracted, called, funVars>>

\* the loop takes the next URL of the frontier: the generator drops it when
\* it is indexed, the loop body runs on it otherwise
CrawlUrl(env) ==
    /\ pc = "loop"
    /\ urls # <<>>
    /\ LET url == Head(urls)
       IN IF ~not_indexed_url(db, url)
          THEN /\ env = [fail_at |-> "none", fault_in |-> "none", fault |-> 0]
               /\ lastOp' = [NoOp EXCEPT !.op = "crawl_url", !.url = url,
                                         !.was_indexed = TRUE, !.outcome = "filtered"]
               /\ urls' = Tail(urls)
               /\ UNCHANGED <<db, pc, next_urls, exc, extracted, called, passVars>>
          ELSE LET r == crawl_url(db, url, web[url], env, next_urls)
                   g == get_valid_links(url, web[url])
               IN /\ db' = r.db
                  /\ next_urls' = r.next
                  /\ exc' = r.exc
                  /\ pc' = IF r.exc = "none" THEN "loop" ELSE "raised"
                  /\ urls' = IF r.exc = "none" THEN Tail(urls) ELSE urls
                  /\ lastOp' = [NoOp EXCEPT !.op = "crawl_url", !.url = url,
                                            !.outcome = r.outcome,
                                            !.env = env.fault_in]
                  /\ called' = IF r.outcome \in {"fetch_failed", "parse_failed"}
                               THEN called ELSE called \cup {url}
                  /\ extracted' = IF r.outcome \in {"indexed", "link_ref_failed"}
                                  THEN extracted \cup
                                       {<<url, g.links[i].url>> : i \in DOMAIN g.links}
                                  ELSE extracted
                  /\ fetches' = [fetches EXCEPT ![url] = @ + 1]
                  /\ wrote' = IF Len(r.db.word_location) > Len(db.word_location)
                              THEN [wrote EXCEPT ![url] = @ + 1]
                              ELSE wrote
                  /\ failed' = IF r.outcome = "indexed" THEN failed
                                ELSE IF r.outcome \in {"links_failed", "link_ref_failed"}
                                THEN failed \cup {r.outcome}
                                ELSE failed \cup {"skipped"}
                  /\ written' = IF r.outcome \in {"indexed", "links_failed",
                                                   "link_ref_failed"}
                                 THEN [written EXCEPT ![url] = @ + 1]
                                 ELSE written
                  /\ UNCHANGED indexed0
    /\ UNCHANGED <<nOps, web, depth, frames, seeds0, depth0, funVars>>

\* the frontier is exhausted: depth -= 1, then return or recurse on next_urls
CrawlPassEnd(order) ==
    /\ pc = "loop"
    /\ exhausted(urls)
    /\ depth' = next_depth(depth)
    /\ lastOp' = [NoOp EXCEPT !.op = "crawl_pass_end"]
    /\ IF depth' = 0
       THEN /\ pc' = "returned"
            /\ UNCHANGED <<urls, next_urls, frames, exc, fetches, wrote>>
       ELSE IF frames = RecursionLimit
       THEN /\ pc' = "raised"
            /\ exc' = "RecursionError"
            /\ UNCHANGED <<urls, next_urls, frames, fetches, wrote>>
       ELSE /\ urls' = order
            /\ next_urls' = {}
            /\ frames' = frames + 1
            /\ fetches' = NoCalls
            /\ wrote' = NoCalls
            /\ UNCHANGED <<pc, exc>>
    /\ UNCHANGED <<db, nOps, web, seeds0, depth0, extracted, called, failed, indexed0,
                   written, funVars>>

CrawlNext ==
    \/ \E s \in SEEDS, d \in DEPTHS : CrawlStart(s, d)
    \/ \E e \in ENVS : CrawlUrl(e)
    \/ \E o \in Orders(next_urls) : CrawlPassEnd(o)

CrawlSpec == CrawlInit /\ [][CrawlNext]_vars

\* ------------------------------------------------------------------ claims
\* the ids of the records that hold value v, and the id of the one that does
IdsOf(list, v) == {i \in DOMAIN list : list[i] = v}

IdOf(list, v) == CHOOSE i \in DOMAIN list : list[i] = v

\* the postings of a URL: the rows of word_location under an id of the URL
PostingsOf(d, url) ==
    LET OfUrl(row) == row.url_id \in IdsOf(d.url_list, url)
    IN SelectSeq(d.word_location, OfUrl)

\* C1: a second add_index(u, W) leaves the store as the first call left it,
\* and once u has a posting, add_index(u, W') changes no table, whatever W'.
C1_IdempotentIndexing ==
    \A u \in CALL_URLS, w \in WORDSEQS :
        LET once == add_index(db, u, w, 0).db
        IN /\ add_index(once, u, w, 0).db = once
           /\ \A w2 \in WORDSEQS :
                 /\ PostingsOf(once, u) # <<>> => add_index(once, u, w2, 0).db = once
                 /\ PostingsOf(db, u) # <<>> => add_index(db, u, w2, 0).db = db

\* add_index was called with three words on a URL that had one posting, and
\* the URL still has that one posting
C1_Witness ==
    /\ lastOp.op = "add_index"
    /\ lastOp.was_indexed
    /\ Len(lastOp.words) = 3
    /\ Len(PostingsOf(db, lastOp.url)) = 1
    /\ Len(db.word_list) = 1

\* C2: is_indexed(u) is true exactly when u has a URL record and a posting
\* references that record's id; a URL that has a record but for which
\* add_index was never called is not indexed.
C2_IsIndexedIffRecordAndPosting ==
    \A u \in URLS \cup {Uftp} :
        /\ is_indexed(db, u) <=>
              \E i \in IdsOf(db.url_list, u) :
                 \E j \in DOMAIN db.word_location : db.word_location[j].url_id = i
        /\ (IdsOf(db.url_list, u) # {} /\ u \notin called) => ~is_indexed(db, u)

\* Ub has a record from add_link_ref alone and is not indexed, Ua is indexed
C2_Witness ==
    /\ lastOp.op = "add_link_ref"
    /\ lastOp.url = Ua
    /\ lastOp.url_to = Ub
    /\ called = {Ua}
    /\ IdsOf(db.url_list, Ub) # {}
    /\ ~is_indexed(db, Ub)
    /\ is_indexed(db, Ua)

\* C3: after add_index(u, W) on a URL that is not indexed, the postings of u
\* are one per position of W: (id(u), id(W[i]), i) for 0 <= i < len(W), and
\* no other.
C3_DensePositions ==
    \A u \in CALL_URLS, w \in WORDSEQS :
        ~is_indexed(db, u) =>
            LET after == add_index(db, u, w, 0).db
                rows == PostingsOf(after, u)
            IN /\ Len(rows) = Len(w)
               /\ \A i \in 1..Len(w) :
                     \E j \in DOMAIN rows :
                        rows[j] = [url_id |-> IdOf(after.url_list, u),
                                   word_id |-> IdOf(after.word_list, w[i]),
                                   location |-> i - 1]

\* add_index has indexed a URL with a word at positions 0 and 2
C3_Witness ==
    /\ lastOp.op = "add_index"
    /\ ~lastOp.was_indexed
    /\ lastOp.words = <<wPy, wDb, wPy>>
    /\ LET rows == PostingsOf(db, lastOp.url)
       IN /\ Len(rows) = 3
          /\ rows[1].word_id = rows[3].word_id
          /\ rows[1].location = 0
          /\ rows[3].location = 2

\* the URLs a chain of at most k links of E reaches from S
RECURSIVE ReachWithin(_, _, _)
ReachWithin(S, E, k) ==
    IF k = 0 THEN S
    ELSE LET R == ReachWithin(S, E, k - 1)
         IN R \cup {e[2] : e \in {x \in E : x[1] \in R}}

\* C4: crawl(S, d) with d >= 1 calls add_index only for URLs that a chain of
\* fewer than d extracted links reaches from S; with d = 1, only for S.
C4_DepthBound ==
    depth0 >= 1 =>
        /\ called \subseteq ReachWithin(seeds0, extracted, depth0 - 1)
        /\ depth0 = 1 => called \subseteq seeds0

\* crawl([a], 2) on the chain a -> b -> c has returned: a and b were
\* indexed, the link b -> c was extracted, c was not touched
C4_Witness ==
    /\ pc = "returned"
    /\ depth0 = 2
    /\ seeds0 = {Ua}
    /\ called = {Ua, Ub}
    /\ <<Ub, Uc>> \in extracted
    /\ ~is_indexed(db, Uc)

\* C5: a pass of the loop whose fetch fails writes nothing, adds nothing to
\* the next frontier and leaves the crawl in its loop, one URL further.
C5_FetchFailureIsolated ==
    [][(lastOp'.op = "crawl_url" /\ lastOp'.outcome = "fetch_failed")
          => /\ db' = db
             /\ next_urls' = next_urls
             /\ pc' = "loop"
             /\ exc' = "none"
             /\ urls' = Tail(urls)]_vars

\* the fetch of the first of two seeds has failed, the second is still to do
C5_Witness ==
    /\ lastOp.op = "crawl_url"
    /\ lastOp.outcome = "fetch_failed"
    /\ pc = "loop"
    /\ Len(urls) = 1
    /\ db = init_database
    /\ next_urls = {}

\* C6: as claimed, crawl returns for every depth: it is never left by an
\* exception other than a store error (or the parse error of C8).
C6_CrawlAlwaysReturns ==
    pc = "raised" => exc \in {"StoreError", "ValueError"}

\* C7, as claimed: a store failure in add_index or in add_link_ref during a
\* pass of the loop leaves crawl as an exception.
C7_StoreErrorAborts ==
    (lastOp.op = "crawl_url" /\ lastOp.outcome \in {"index_failed", "link_ref_failed"})
        => (pc = "raised" /\ exc = "StoreError")

\* C7, amended: a store failure in add_link_ref leaves crawl as an exception
\* and nothing is processed after it; a store failure in add_index is caught
\* in the loop, which goes on with the next URL.
C7_LinkRefErrorAborts ==
    /\ [](/\ (lastOp.op = "crawl_url" /\ lastOp.outcome = "link_ref_failed")
                => (pc = "raised" /\ exc = "StoreError")
          /\ (lastOp.op = "crawl_url" /\ lastOp.outcome = "index_failed")
                => (pc = "loop" /\ exc = "none"))
    /\ [][pc = "raised" => (pc' = "raised" /\ db' = db /\ urls' = urls)]_vars

\* add_link_ref has failed on the first of two seeds: the crawl is over and
\* the second seed is still in the frontier
C7_Witness ==
    /\ lastOp.op = "crawl_url"
    /\ lastOp.outcome = "link_ref_failed"
    /\ lastOp.env = "add_link_ref"
    /\ pc = "raised"
    /\ exc = "StoreError"
    /\ Len(urls) = 2

\* C8, as claimed: a failure of the fetch, of the tokenizing or of the link
\* extraction of one URL is caught in the loop, which goes on.
C8_ParseErrorsCaught ==
    (lastOp.op = "crawl_url"
        /\ lastOp.outcome \in {"fetch_failed", "parse_failed", "links_failed"})
        => (pc = "loop" /\ exc = "none")

\* C9: add_link_ref(a, a, W) inserts no link edge, no link-word row and no
\* word record, at most the URL record of a; no link edge of the store has
\* from_id = to_id.
C9_NoSelfLoops ==
    /\ \A i \in DOMAIN db.link : db.link[i].from_id # db.link[i].to_id
    /\ \A a \in URLS, w \in WORDSEQS :
          LET after == add_link_ref(db, a, a, w, 0).db
          IN /\ after.link = db.link
             /\ after.link_words = db.link_words
             /\ after.word_list = db.word_list
             /\ after.word_location = db.word_location
             /\ after.url_list \in {db.url_list, Append(db.url_list, a)}

\* the crawl has processed the page of a, which holds an anchor to a itself
\* and two anchors to b: the store holds the two edges to b and no other
C9_Witness ==
    /\ web = WebCycle
    /\ lastOp.op = "crawl_url"
    /\ lastOp.url = Ua
    /\ lastOp.outcome = "indexed"
    /\ Ua \in next_urls
    /\ <<Ua, Ua>> \in extracted
    /\ Len(db.link) = 2

\* the rows of the link table from a to b
EdgesOf(d, a, b) ==
    {i \in DOMAIN d.link :
        /\ d.link[i].from_id \in IdsOf(d.url_list, a)
        /\ d.link[i].to_id \in IdsOf(d.url_list, b)}

\* C10: add_link_ref(a, b, W) with a # b appends one link edge (id(a), id(b))
\* and len(W) link-word rows, the i-th with the new edge's id and the id of
\* W[i]; a second call with the same pair appends a second edge.
C10_OneEdgePerCall ==
    \A a \in CALL_URLS, b \in CALL_URLS, w \in WORDSEQS :
      a # b =>
        LET after == add_link_ref(db, a, b, w, 0).db
            again == add_link_ref(after, a, b, w, 0).db
            link_id == Len(db.link) + 1
        IN /\ after.link = Append(db.link, [from_id |-> IdOf(after.url_list, a),
                                            to_id |-> IdOf(after.url_list, b)])
           /\ after.link_words = db.link_words \o
                 [i \in 1..Len(w) |->
                    [link_id |-> link_id, word_id |-> IdOf(after.word_list, w[i])]]
           /\ Cardinality(EdgesOf(after, a, b)) = Cardinality(EdgesOf(db, a, b)) + 1
           /\ Cardinality(EdgesOf(again, a, b)) = Cardinality(EdgesOf(db, a, b)) + 2

\* add_link_ref was called twice with the same pair and a repeated word: two
\* equal edges, four link-word rows, one word record
C10_Witness ==
    /\ lastOp.op = "add_link_ref"
    /\ lastOp.url # lastOp.url_to
    /\ lastOp.words = <<wPy, wPy>>
    /\ Len(db.link) = 2
    /\ db.link[1] = db.link[2]
    /\ Len(db.link_words) = 4
    /\ Len(db.word_list) = 1

\* ---------------------------------------------- words_from_text alone
\* The characters of the texts: letters of both cases that spell stop words
\* and other words, two characters \W matches, and the underscore.
CHARS == {"a", "I", "s", "-", " ", "_"}

MaxText == 4

\* a stop list a caller passes in place of IGNORE_WORDS
CUSTOM_IGNORE == << <<"a","s">>, <<"I">> >>

\* the caller builds the text
TextAppend(c) ==
    /\ lastOp.op = "none"
    /\ Len(input) < MaxText
    /\ input' = Append(input, c)
    /\ UNCHANGED <<db, nOps, lastOp, crawlVars, passVars, output, conc>>

\* words_from_text(text, ignore_words) is called
WordsFromText(ignore_words) ==
    /\ lastOp.op = "none"
    /\ output' = [ignore_words |-> ignore_words,
                  words |-> words_from_text(input, ignore_words)]
    /\ lastOp' = [NoOp EXCEPT !.op = "words_from_text"]
    /\ UNCHANGED <<db, nOps, crawlVars, passVars, input, conc>>

TokNext ==
    \/ \E c \in CHARS : TextAppend(c)
    \/ \E l \in {IGNORE_WORDS, CUSTOM_IGNORE} : WordsFromText(l)

TokSpec == Init /\ [][TokNext]_vars

\* ---------------------------------------------- get_valid_links alone
\* The anchors of the documents: with and without href, to valid and other
\* URLs, with a fragment, with a fragment only, with an href urljoin rejects.
ANCHORS ==
    {Anchor(<<"p","y">>, Href("abs", Ub, FALSE)),
     Anchor(<<"d","b">>, Href("abs", Uc, TRUE)),
     Anchor(<<"t","o","p">>, Href("frag", Ua, TRUE)),
     Anchor(<<"p","y">>, Href("none", Ua, FALSE)),
     Anchor(<<"f","t","p">>, Href("abs", Uftp, FALSE)),
     Anchor(<<"q">>, Href("abs", Uquote, FALSE)),
     Anchor(<<"x">>, Href("bad", Ua, FALSE))}

MaxAnchors == 3

\* the document gets one more anchor
AnchorAppend(a) ==
    /\ lastOp.op = "none"
    /\ Len(input) < MaxAnchors
    /\ input' = Append(input, a)
    /\ UNCHANGED <<db, nOps, lastOp, crawlVars, passVars, output, conc>>

\* get_valid_links(url, soup) is called
GetValidLinks(url) ==
    /\ lastOp.op = "none"
    /\ output' = get_valid_links(url, Page(<<>>, input))
    /\ lastOp' = [NoOp EXCEPT !.op = "get_valid_links", !.url = url]
    /\ UNCHANGED <<db, nOps, crawlVars, passVars, input, conc>>

LinkNext ==
    \/ \E a \in ANCHORS : AnchorAppend(a)
    \/ \E u \in CALL_URLS : GetValidLinks(u)

LinkSpec == Init /\ [][LinkNext]_vars

\* ------------------------------------------------------------------ C11
TABLES == {"url_list", "word_list"}

\* the values a table's natural key takes
KeysOf(table) == IF table = "url_list" THEN URLS ELSE WORDS

\* C11: get_entry_id with create_if_not_exist returns the id of the record
\* of a value the table holds and adds nothing; for a value the table does
\* not hold it inserts exactly one record, into that table only, and returns
\* that record's id. A second call returns the same id and adds nothing, and
\* the table holds exactly one record of the value afterwards.
C11_IdempotentIdAssignment ==
    \A table \in TABLES : \A v \in KeysOf(table) :
        LET r == get_entry_id(db, table, v, TRUE)
            again == get_entry_id(r.db, table, v, TRUE)
        IN /\ r.exc = "none"
           /\ IF IdsOf(db[table], v) # {}
              THEN r.db = db /\ r.ret = IdOf(db[table], v)
              ELSE /\ r.db = [db EXCEPT ![table] = Append(@, v)]
                   /\ r.ret = Len(db[table]) + 1
           /\ r.db[table][r.ret] = v
           /\ again.exc = "none" /\ again.ret = r.ret /\ again.db = r.db
           /\ Cardinality(IdsOf(r.db[table], v)) = 1

\* get_entry_id was called twice for one URL: one record, the same id
C11_Witness ==
    /\ lastOp.op = "get_entry_id" /\ lastOp.create /\ lastOp.table = "url_list"
    /\ nOps = 2
    /\ db = [init_database EXCEPT !.url_list = <<lastOp.url>>]
    /\ lastOp.ret = 1

\* ------------------------------------------------------------------ C12
\* C12: no two URL records hold the same url and no two word records hold
\* the same word, whatever add_index, add_link_ref, get_entry_id and crawl
\* have done so far.
C12_NaturalKeysUnique ==
    \A table \in TABLES : \A i \in DOMAIN db[table], j \in DOMAIN db[table] :
        db[table][i] = db[table][j] => i = j

\* b was a link target of a before it was indexed, and py is a word of a's
\* text and of its anchor
C12_Witness ==
    /\ web = WebChain /\ pc = "returned" /\ depth0 = 2 /\ seeds0 = {Ua}
    /\ is_indexed(db, Ua) /\ is_indexed(db, Ub)
    /\ IdOf(db.url_list, Ub) < Len(db.url_list)
    /\ \E p \in Range(db.word_location), l \in Range(db.link_words) :
           p.word_id = l.word_id /\ db.word_list[p.word_id] = wPy

\* ------------------------------------------------------------------ C13
\* C13: every id a row holds is the id of a record: from_id and to_id of a
\* link and url_id of a posting are ids of URL records, word_id of a posting
\* and of a link word is the id of a word record, link_id of a link word is
\* the id of a link.
C13_ReferentialIntegrity ==
    /\ \A l \in Range(db.link) :
           l.from_id \in DOMAIN db.url_list /\ l.to_id \in DOMAIN db.url_list
    /\ \A p \in Range(db.word_location) :
           p.url_id \in DOMAIN db.url_list /\ p.word_id \in DOMAIN db.word_list
    /\ \A lw \in Range(db.link_words) :
           lw.link_id \in DOMAIN db.link /\ lw.word_id \in DOMAIN db.word_list

\* a crawl has written postings, links and link words
C13_Witness ==
    /\ pc = "returned" /\ called # {}
    /\ db.word_location # <<>> /\ db.link # <<>> /\ db.link_words # <<>>
    /\ Len(db.url_list) >= 3

\* ------------------------------------------------------------------ C14
\* C14: get_entry_id without create_if_not_exist raises ValueError for a
\* value the table does not hold and returns the id of the record of a
\* value it holds; in both cases no table changes.
C14_LookupWithoutCreation ==
    \A table \in TABLES : \A v \in KeysOf(table) :
        LET r == get_entry_id(db, table, v, FALSE)
        IN /\ r.db = db
           /\ IF IdsOf(db[table], v) = {}
              THEN r.exc = "ValueError"
              ELSE r.exc = "none" /\ r.ret = IdOf(db[table], v)

\* a lookup of a word the store does not hold has raised, next to records
\* of another word
C14_Witness ==
    /\ lastOp.op = "get_entry_id" /\ ~lastOp.create /\ lastOp.table = "word_list"
    /\ lastOp.outcome = "ValueError"
    /\ db.word_list # <<>>
    /\ IdsOf(db.word_list, lastOp.words[1]) = {}

\* ------------------------------------------------------------------ C15
\* C15: in one pass over the frontier a URL is indexed at most once, however
\* often the frontier lists it: at most one pass of the loop inserts postings
\* of it, and once it is indexed every later occurrence is filtered out by
\* is_indexed: nothing is fetched, do_index is not called, the store is left
\* as it is.
C15_DuplicateEntriesIndexedOnce ==
    /\ [](\A u \in URLS : wrote[u] <= 1)
    /\ [][(pc = "loop" /\ urls # <<>> /\ is_indexed(db, Head(urls)))
            => /\ lastOp'.outcome = "filtered"
               /\ db' = db /\ fetches' = fetches /\ called' = called
               /\ urls' = Tail(urls)]_vars

\* the seeds list a twice: its first occurrence was indexed, its second
\* filtered
C15_Witness ==
    /\ frames = 1 /\ seeds0 = {Ua}
    /\ lastOp.op = "crawl_url" /\ lastOp.outcome = "filtered" /\ lastOp.url = Ua
    /\ fetches[Ua] = 1 /\ wrote[Ua] = 1

\* ------------------------------------------------------------------ C16
\* C16 as stated: in one pass over the frontier no URL is fetched twice.
C16_OneAttemptPerUrl == \A u \in URLS : fetches[u] <= 1

\* C16, amended: in every pass after the pass over the seeds no URL is
\* fetched twice, whatever the outcome of its fetch; in every pass a fetch
\* of a URL takes one listing of it off the frontier (or ends the crawl), so
\* a URL is fetched at most once per listing.
C16_OneAttemptPerDiscoveredUrl ==
    /\ [](frames >= 2 => \A u \in URLS : fetches[u] <= 1)
    /\ [][\A u \in URLS :
            fetches'[u] > fetches[u]
            => /\ pc = "loop" /\ urls # <<>> /\ Head(urls) = u
               /\ fetches'[u] = fetches[u] + 1
               /\ (pc' = "raised" \/ urls' = Tail(urls))]_vars

\* a links to b twice; in the second pass b was attempted once, and the
\* fetch failed
C16_Witness ==
    /\ web = WebCycle /\ seeds0 = {Ua} /\ frames = 2
    /\ urls = <<>> /\ fetches = [NoCalls EXCEPT ![Ub] = 1]
    /\ lastOp.op = "crawl_url" /\ lastOp.outcome = "fetch_failed"

\* ------------------------------------------------------------------ C17
\* C17: crawl(S, d) with d >= 1 is in its k-th pass with depth = d - k + 1,
\* whatever the number of URLs of its frontiers; it runs no more than d
\* passes, and it returns at the end of the d-th, with the frontier that
\* pass has collected left alone.
C17_DepthCountsPasses ==
    (pc # "idle" /\ depth0 >= 1)
    => /\ frames <= depth0
       /\ pc \in {"loop", "raised"} => depth = depth0 - frames + 1
       /\ pc = "returned" => frames = depth0 /\ depth = 0 /\ urls = <<>>

\* crawl([a], 2) on the chain has returned after two passes; c, found in
\* the second, was never fetched
C17_Witness ==
    /\ web = WebChain /\ pc = "returned" /\ depth0 = 2 /\ frames = 2
    /\ seeds0 = {Ua} /\ failed = {}
    /\ next_urls = {Uc} /\ Uc \notin called /\ ~is_indexed(db, Uc)

\* ------------------------------------------------------------------ C18
\* where an href leads from the page at url, fragment dropped
TargetOf(url, a) == IF a.href.kind = "frag" THEN url ELSE a.href.url

\* the anchors of a document that have an href that resolves to a valid URL
LinkedAnchors(url, anchors) ==
    LET Linked(a) == /\ a.href.kind \in {"abs", "frag"}
                     /\ ~TargetOf(url, a).quote
                     /\ TargetOf(url, a).scheme \in {"http", "https"}
    IN SelectSeq(anchors, Linked)

ExpectedLinks(url, anchors) ==
    [i \in DOMAIN LinkedAnchors(url, anchors) |->
        [text |-> LinkedAnchors(url, anchors)[i].text,
         url |-> TargetOf(url, LinkedAnchors(url, anchors)[i])]]

\* C18: get_valid_links(url, document) returns, in the order of the
\* document, the text and the resolved URL, without fragment, of each anchor
\* that has an href whose resolved URL is valid; every other anchor is
\* dropped and no error is reported for it.
C18_LinkExtraction ==
    lastOp.op = "get_valid_links"
    => /\ output.exc = "none"
       /\ output.links = ExpectedLinks(lastOp.url, input)

\* ------------------------------------------------------------------ C19
\* the maximal runs of word characters of a text, as <<first, last>>
RunsOf(text) ==
    {r \in (1..Len(text)) \X (1..Len(text)) :
        /\ r[1] <= r[2]
        /\ \A i \in r[1]..r[2] : IsWordChar(text[i])
        /\ r[1] = 1 \/ ~IsWordChar(text[r[1] - 1])
        /\ r[2] = Len(text) \/ ~IsWordChar(text[r[2] + 1])}

\* the runs from left to right, lower-cased
TokensOf(text) ==
    [k \in 1..Cardinality(RunsOf(text)) |->
        LET r == CHOOSE r \in RunsOf(text) :
                    Cardinality({q \in RunsOf(text) : q[1] < r[1]}) = k - 1
        IN Lower(SubSeq(text, r[1], r[2]))]

ExpectedWords(text, ignore_words) ==
    LET Kept(w) == w \notin Range(ignore_words)
    IN SelectSeq(TokensOf(text), Kept)

\* C19: words_from_text(text, ignore_words) returns, from left to right, the
\* maximal runs of word characters of text, lower-cased, without those whose
\* lower-cased form is in ignore_words; so no word returned is empty, holds
\* an upper-case letter or is in ignore_words, and with a list of the
\* caller's the words of IGNORE_WORDS that are not in it are returned.
C19_Tokenizer ==
    lastOp.op = "words_from_text"
    => /\ output.words = ExpectedWords(input, output.ignore_words)
       /\ \A w \in Range(output.words) :
             /\ w # <<>>
             /\ \A i \in DOMAIN w : w[i] \notin Range(UpperCase)
             /\ w \notin Range(output.ignore_words)
       /\ \A w \in Range(TokensOf(input)) :
             w \notin Range(output.ignore_words) => w \in Range(output.words)

\* "I as-a" with the caller's list: i and a are returned, as is not
C19_Witness ==
    /\ lastOp.op = "words_from_text"
    /\ output.ignore_words = CUSTOM_IGNORE
    /\ Len(input) = MaxText
    /\ \E i \in DOMAIN input : input[i] \in Range(UpperCase)
    /\ \E i \in DOMAIN input : ~IsWordChar(input[i])
    /\ <<"a">> \in Range(output.words)
    /\ Len(output.words) = 2

\* ------------------------------------------------------------------ C20
\* the valid links of the pages of a web
ValidLinksOf(w) ==
    UNION {{<<u, l.url>> : l \in Range(ExpectedLinks(u, w[u].anchors))} :
              u \in URLS}

\* C20: crawl(S, d) with d >= 1 was called on a store with no URL indexed,
\* no fetch and no parse of a page failed, the store did not fail and every
\* page has a word that is no stop word; when crawl has ended every URL that
\* fewer than d valid links lead to from a seed is indexed.
C20_TraversalComplete ==
    (/\ pc \in {"returned", "raised"} /\ depth0 >= 1
     /\ indexed0 = {}
     /\ failed \subseteq {"links_failed"}
     /\ \A u \in URLS : get_words(web[u]) # <<>>)
    => \A u \in ReachWithin(seeds0, ValidLinksOf(web), depth0 - 1) :
          is_indexed(db, u)

\* ------------------------------------------------------------------ C21
\* C21: a URL that is indexed when the loop pulls it from the frontier is
\* passed over: it is not fetched, add_index is not called for it, the store
\* is left as it is (so no add_link_ref from it) and next_urls gets none of
\* its links.
C21_IndexedUrlsFiltered ==
    [][(pc = "loop" /\ urls # <<>> /\ is_indexed(db, Head(urls)))
        => /\ fetches' = fetches /\ called' = called
           /\ db' = db
           /\ next_urls' = next_urls /\ extracted' = extracted
           /\ pc' = "loop"]_vars

\* b was indexed before the crawl; the second pass pulled it and passed it
\* over, its link to c is not in next_urls
C21_Witness ==
    /\ web = WebChain /\ seeds0 = {Ua} /\ indexed0 = {Ub} /\ frames = 2
    /\ lastOp.op = "crawl_url" /\ lastOp.outcome = "filtered" /\ lastOp.url = Ub
    /\ fetches = NoCalls /\ next_urls = {}

\* ------------------------------------------------------------------ C22
\* add_link_ref for the links of a page, from the k-th on, with no fault
RECURSIVE LinkRefsFrom(_, _, _, _)
LinkRefsFrom(d, url, links, k) ==
    IF k > Len(links) THEN d
    ELSE LinkRefsFrom(add_link_ref(d, url, links[k].url,
                                   words_from_text(links[k].text, IGNORE_WORDS), 0).db,
                      url, links, k + 1)

\* C22: when the loop has fetched and indexed u and gone through its links,
\* the store is the one add_index(u, words) and then, in the order of the
\* document, add_link_ref(u, link, words of the anchor text) for every valid
\* link of u leave, and next_urls has gained every one of these links, those
\* to u itself and to indexed URLs included.
C22_LinksRecordedAndQueued ==
    [][(lastOp'.op = "crawl_url" /\ lastOp'.outcome = "indexed")
        => LET u == lastOp'.url
               links == ExpectedLinks(u, web[u].anchors)
               i == add_index(db, u, get_words(web[u]), 0)
           IN /\ db' = LinkRefsFrom(i.db, u, links, 1)
              /\ next_urls' = next_urls \cup {links[k].url : k \in DOMAIN links}]_vars

\* a links to itself and twice to b, which was indexed before the crawl:
\* a and b are both in next_urls, two edges a -> b are recorded
C22_Witness ==
    /\ web = WebCycle /\ indexed0 = {Ub} /\ frames = 1
    /\ lastOp.op = "crawl_url" /\ lastOp.outcome = "indexed" /\ lastOp.url = Ua
    /\ next_urls = {Ua, Ub}
    /\ Len(db.link) = 2

\* ------------------------------------------------------------------ C23
\* C23: in one crawl(S, d) with d >= 1, over all its passes, a URL is
\* fetched and written in at most one pass of the loop: do_index returns and
\* its links are recorded at most once.
C23_WrittenOncePerCrawl == depth0 >= 1 => \A u \in URLS : written[u] <= 1

\* ------------------------------------------------------------------ C24
\* C24: when nothing is pending, a URL this crawl has indexed holds the
\* postings of all the words of its page: no part of a posting set is
\* committed.
C24_NoPartialPostings ==
    (pc # "idle" /\ depth0 >= 1 /\ db.pending = 0)
    => \A u \in URLS \ indexed0 :
          is_indexed(db, u) => Len(PostingsOf(db, u)) = Len(get_words(web[u]))

\* ------------------------------------------------------------------ C25
\* C25: after add_index(u, W) has returned, is_indexed(u) is true, whatever
\* u and W.
C25_IndexedAfterAddIndex ==
    lastOp.op = "add_index" => is_indexed(db, lastOp.url)

\* ------------------------------------------------------------------ C26
ALL_TABLES == {"url_list", "word_list", "word_location", "link", "link_words"}

\* store e holds every row of store d, under the id it has in d, and gives
\* every URL and word of d the id d gives it
Keeps(d, e) ==
    /\ \A t \in ALL_TABLES :
          Len(d[t]) <= Len(e[t]) /\ SubSeq(e[t], 1, Len(d[t])) = d[t]
    /\ \A t \in TABLES : \A v \in Range(d[t]) :
          get_entry_id(e, t, v, FALSE).ret = get_entry_id(d, t, v, FALSE).ret

\* C26: no step of a crawl and no call of get_entry_id, add_index or
\* add_link_ref deletes or changes a row of a table: every table only grows
\* at its end, and a URL or word keeps its id.
C26_AppendOnly ==
    /\ [][Keeps(db, db')]_vars
    /\ [](/\ \A t \in TABLES : \A v \in KeysOf(t), c \in BOOLEAN :
                Keeps(db, get_entry_id(db, t, v, c).db)
          /\ \A u \in CALL_URLS, w \in WORDSEQS :
                /\ Keeps(db, add_index(db, u, w, 0).db)
                /\ \A v \in CALL_URLS : Keeps(db, add_link_ref(db, u, v, w, 0).db))

\* a crawl on a store that held b and its posting has returned: b and its
\* posting are still the first rows, behind them the rows of the crawl
C26_Witness ==
    /\ pc = "returned" /\ indexed0 = {Ub} /\ called # {}
    /\ db.url_list[1] = Ub /\ Len(db.url_list) >= 3
    /\ db.word_location[1] = [url_id |-> 1, word_id |-> 1, location |-> 0]
    /\ Len(db.word_location) >= 3 /\ db.link # <<>> /\ db.link_words # <<>>

\* ------------------------------------------------------------------ C27
\* C27: crawl goes on to the next pass, or returns, only when the loop has
\* been through the whole frontier; the next pass then gets all of
\* next_urls, and every URL the loop touches is the head of the frontier
\* of the pass it is in.
C27_BarrierBetweenPasses ==
    /\ [][(frames' # frames /\ pc = "loop")
           => /\ urls = <<>>
              /\ frames' = frames + 1
              /\ Range(urls') = next_urls /\ Len(urls') = Cardinality(next_urls)]_vars
    /\ [][pc' = "returned" => urls = <<>>]_vars
    /\ [][lastOp'.op = "crawl_url"
           => /\ urls # <<>> /\ lastOp'.url = Head(urls)
              /\ frames' = frames
              /\ next_urls \subseteq next_urls']_vars

\* the second pass starts on two URLs, after a first pass in which one URL
\* was indexed and one skipped
C27_Witness ==
    /\ frames = 2 /\ lastOp.op = "crawl_pass_end"
    /\ Len(urls) = 2 /\ next_urls = {}
    /\ "skipped" \in failed /\ called # {}

\* ------------------------------------------------------------------ C28
\* the rows of the tables, without the count of pending rows
RowsOf(d) == [t \in ALL_TABLES |-> d[t]]

\* a call that took d to e has left none of its rows pending
Committed(d, e) ==
    IF RowsOf(e) = RowsOf(d) THEN e.pending \in {0, d.pending} ELSE e.pending = 0

\* C28: when get_entry_id, add_index or add_link_ref returns normally, the
\* rows it has inserted are committed, whatever the store held and whatever
\* an earlier, failed call has left pending; a pass of the loop of crawl that
\* indexes a page and records its links leaves no row pending.
C28_DurableCommit ==
    /\ [](/\ \A t \in TABLES : \A v \in KeysOf(t) :
                Committed(db, get_entry_id(db, t, v, TRUE).db)
          /\ \A u \in CALL_URLS, w \in WORDSEQS :
                /\ Committed(db, add_index(db, u, w, 0).db)
                /\ \A v \in CALL_URLS : Committed(db, add_link_ref(db, u, v, w, 0).db))
    /\ [][(lastOp'.op = "crawl_url" /\ lastOp'.outcome = "indexed")
           => db'.pending = 0]_vars

\* a failed add_index had left a posting pending; a later pass of the loop
\* has indexed a page and recorded its links, and nothing is pending
C28_Witness ==
    /\ "skipped" \in failed
    /\ \E u \in URLS \ indexed0 :
          is_indexed(db, u) /\ Len(PostingsOf(db, u)) < Len(get_words(web[u]))
    /\ lastOp.op = "crawl_url" /\ lastOp.outcome = "indexed"
    /\ db.link # <<>> /\ db.pending = 0

\* ------------------------------------------------------------------ C29
\* C29: add_link_ref, failing or not, inserts no posting and leaves
\* is_indexed of every URL as it is; add_index, failing or not, inserts no
\* link and no link word; is_indexed leaves the store as it is.
C29_FrameOfStoreOperations ==
    /\ [](\A u \in CALL_URLS, w \in WORDSEQS, f \in 0..MaxFault :
            /\ LET r == add_index(db, u, w, f).db
               IN r.link = db.link /\ r.link_words = db.link_words
            /\ \A v \in CALL_URLS :
                  LET r == add_link_ref(db, u, v, w, f).db
                  IN /\ r.word_location = db.word_location
                     /\ \A x \in URLS : is_indexed(r, x) = is_indexed(db, x))
    /\ [][lastOp'.op = "is_indexed" => db' = db]_vars
    /\ [][lastOp'.op = "add_link_ref"
           => \A x \in URLS : is_indexed(db', x) = is_indexed(db, x)]_vars
    /\ [][lastOp'.op = "add_index"
           => db'.link = db.link /\ db'.link_words = db.link_words]_vars

\* add_link_ref has recorded a link with words to a URL that is new to the
\* store, next to an indexed URL: the target has a record and is not indexed
C29_Witness ==
    /\ lastOp.op = "add_link_ref"
    /\ db.link # <<>> /\ db.link_words # <<>> /\ Len(db.word_location) = 1
    /\ is_indexed(db, lastOp.url)
    /\ IdsOf(db.url_list, lastOp.url_to) # {} /\ ~is_indexed(db, lastOp.url_to)

\* ------------------------------------- two workers in add_index, one URL
\* Each worker has its own SqliteIndex on the same database file: a
\* connection of sqlite3 is bound to the thread that made it.  A step is one
\* statement.  A SELECT reads the committed rows (a worker has no pending
\* record of its own when it selects one).  An INSERT opens the connection's
\* transaction and takes the write lock of the file, which conn.commit()
\* releases; while another connection holds it, an INSERT waits, and raises
\* sqlite3.OperationalError when the timeout of the connection runs out.

\* both workers are handed add_index(url, words)
Spawn(url, words) ==
    /\ lastOp.op = "none"
    /\ conc' = [NoConc EXCEPT !.url = url, !.words = words,
                              !.pcw = [w \in WORKERS |-> "call"]]
    /\ lastOp' = [NoOp EXCEPT !.op = "spawn", !.url = url, !.words = words]
    /\ UNCHANGED <<db, nOps, crawlVars, passVars, input, output>>

\* where a worker goes when get_entry_id has returned an id
AfterEntry(c, w, id) ==
    IF c.table[w] = "url_list"
    THEN [c EXCEPT !.url_id[w] = id,
                   !.table[w] = "word_list",
                   !.pcw[w] = IF Len(c.words) = 0 THEN "commit" ELSE "select"]
    ELSE [c EXCEPT !.word_id[w] = id, !.pcw[w] = "post"]

\* if self.is_indexed(url): return
IsIndexedStep(w) ==
    /\ conc.pcw[w] = "call"
    /\ LET found == is_indexed(db, conc.url)
           others == \E v \in WORKERS \ {w} :
                        conc.pcw[v] \notin {"call", "done", "raised"}
       IN conc' = [conc EXCEPT !.pcw[w] = IF found THEN "done" ELSE "select",
                               !.table[w] = "url_list",
                               !.saw_indexed[w] = found,
                               !.overlap = @ \/ others]
    /\ lastOp' = [NoOp EXCEPT !.op = "is_indexed", !.url = conc.url]
    /\ UNCHANGED <<db, nOps, crawlVars, passVars, input, output>>

\* get_entry_id: the SELECT, and the return of the rowid found
SelectEntry(w) ==
    /\ conc.pcw[w] = "select"
    /\ LET value == IF conc.table[w] = "url_list" THEN conc.url
                    ELSE conc.words[conc.idx[w] + 1]
           result == SelectRowid(db[conc.table[w]], value)
       IN conc' = IF result # None THEN AfterEntry(conc, w, result)
                  ELSE [conc EXCEPT !.pcw[w] = "insert"]
    /\ lastOp' = [NoOp EXCEPT !.op = "select", !.table = conc.table[w]]
    /\ UNCHANGED <<db, nOps, crawlVars, passVars, input, output>>

\* get_entry_id: the INSERT
InsertEntry(w) ==
    /\ conc.pcw[w] = "insert"
    /\ conc.writer \in {None, w}
    /\ LET value == IF conc.table[w] = "url_list" THEN conc.url
                    ELSE conc.words[conc.idx[w] + 1]
       IN conc' = [conc EXCEPT !.tx[w][conc.table[w]] = Append(@, value),
                               !.writer = w,
                               !.pcw[w] = "entry_commit"]
    /\ lastOp' = [NoOp EXCEPT !.op = "insert", !.table = conc.table[w]]
    /\ UNCHANGED <<db, nOps, crawlVars, passVars, input, output>>

\* conn.commit(): the rows of the connection's transaction reach the file
Flush(d, tx) ==
    [d EXCEPT !.url_list = @ \o tx.url_list,
              !.word_list = @ \o tx.word_list,
              !.word_location = @ \o tx.word_location]

\* get_entry_id: the commit, and the return of cur.lastrowid
CommitEntry(w) ==
    /\ conc.pcw[w] = "entry_commit"
    /\ db' = Flush(db, conc.tx[w])
    /\ conc' = AfterEntry([conc EXCEPT !.tx[w] = NoTx, !.writer = None],
                          w, Len(db'[conc.table[w]]))
    /\ lastOp' = [NoOp EXCEPT !.op = "entry_commit", !.table = conc.table[w]]
    /\ UNCHANGED <<nOps, crawlVars, passVars, input, output>>

\* the INSERT INTO word_location of the loop of add_index
InsertPosting(w) ==
    /\ conc.pcw[w] = "post"
    /\ conc.writer \in {None, w}
    /\ LET row == [url_id |-> conc.url_id[w], word_id |-> conc.word_id[w],
                   location |-> conc.idx[w]]
       IN conc' = [conc EXCEPT !.tx[w].word_location = Append(@, row),
                               !.writer = w,
                               !.idx[w] = @ + 1,
                               !.pcw[w] = IF conc.idx[w] + 1 = Len(conc.words)
                                          THEN "commit" ELSE "select"]
    /\ lastOp' = [NoOp EXCEPT !.op = "insert", !.table = "word_location"]
    /\ UNCHANGED <<db, nOps, crawlVars, passVars, input, output>>

\* the conn.commit() that ends add_index
CommitIndex(w) ==
    /\ conc.pcw[w] = "commit"
    /\ db' = Flush(db, conc.tx[w])
    /\ conc' = [conc EXCEPT !.tx[w] = NoTx,
                            !.writer = IF @ = w THEN None ELSE @,
                            !.pcw[w] = "done"]
    /\ lastOp' = [NoOp EXCEPT !.op = "commit"]
    /\ UNCHANGED <<nOps, crawlVars, passVars, input, output>>

\* an INSERT has waited for the write lock until the timeout of the
\* connection: sqlite3.OperationalError leaves add_index
Busy(w) ==
    /\ conc.pcw[w] \in {"insert", "post"}
    /\ conc.writer \notin {None, w}
    /\ conc' = [conc EXCEPT !.pcw[w] = "raised"]
    /\ lastOp' = [NoOp EXCEPT !.op = "busy"]
    /\ UNCHANGED <<db, nOps, crawlVars, passVars, input, output>>

ConcNext ==
    \/ \E u \in CALL_URLS, w \in WORDSEQS : Spawn(u, w)
    \/ \E w \in WORKERS : IsIndexedStep(w)
    \/ \E w \in WORKERS : SelectEntry(w)
    \/ \E w \in WORKERS : InsertEntry(w)
    \/ \E w \in WORKERS : CommitEntry(w)
    \/ \E w \in WORKERS : InsertPosting(w)
    \/ \E w \in WORKERS : CommitIndex(w)
    \/ \E w \in WORKERS : Busy(w)

ConcSpec == Init /\ [][ConcNext]_vars

\* ------------------------------------------------------------------ C30
\* both calls of add_index have returned
BothDone == \A w \in WORKERS : conc.pcw[w] = "done"

\* the workers that found the URL not indexed
Writers == {w \in WORKERS : ~conc.saw_indexed[w]}

\* C30 as stated: when both workers have returned from add_index for the
\* same URL, the URL has one record and one posting per word occurrence.
C30_SingleWriter ==
    BothDone =>
        /\ Cardinality(IdsOf(db.url_list, conc.url)) = 1
        /\ Len(PostingsOf(db, conc.url)) = Len(conc.words)

\* C30, amended: a worker returns from add_index without writing only if a
\* posting of the URL is committed when it evaluates is_indexed.  When the
\* two calls run one after the other, the URL ends with one record and one
\* posting per word occurrence.  When they interleave, every worker that
\* found the URL not indexed writes: once both have returned, the URL has
\* one posting per word occurrence for each such worker, and one or two
\* records.
C30_SingleWriterOnlyWhenSerialised ==
    /\ \A w \in WORKERS :
          conc.saw_indexed[w] => Len(PostingsOf(db, conc.url)) >= 1
    /\ (BothDone /\ ~conc.overlap) => C30_SingleWriter
    /\ BothDone =>
          /\ Len(PostingsOf(db, conc.url))
                = Len(conc.words) * Cardinality(Writers)
          /\ Cardinality(IdsOf(db.url_list, conc.url)) \in {1, 2}

\* both workers evaluated is_indexed before either inserted, both have
\* returned: the URL has two records and two posting sets
C30_Witness ==
    /\ BothDone /\ conc.overlap
    /\ Len(conc.words) >= 2
    /\ Cardinality(IdsOf(db.url_list, conc.url)) = 2
    /\ Len(PostingsOf(db, conc.url)) = 2 * Len(conc.words)

\* ------------------------------------------- search_engine.py: the Crawler
\* create_index_tables
create_index_tables ==
    [url_list |-> <<>>, word_list |-> <<>>, word_location |-> <<>>,
     link |-> <<>>, link_words |-> <<>>, pending |-> 0]

\* separate_words: the fragments of the text that are not empty, lower-cased;
\* the stop words stay in
separate_words(text) ==
    LET frags == Split(text)
        nonempty == FilterSeq(frags, Range(frags) \ {<<>>})
    IN [i \in DOMAIN nonempty |-> Lower(nonempty[i])]

se_get_entry_id(d, table, value, create_new) ==
    LET result == SelectRowid(d[table], value)
    IN IF result # None
       THEN [db |-> d, ret |-> result, exc |-> "none"]
       ELSE IF create_new
            THEN [db |-> [d EXCEPT ![table] = Append(@, value), !.pending = 0],
                  ret |-> Len(d[table]) + 1, exc |-> "none"]
            ELSE [db |-> d, ret |-> None, exc |-> "ValueError"]

\* is_indexed: "False" without a record, "True" with a record and a posting,
\* "None" (after the warning) with a record and no posting
se_is_indexed(d, url) ==
    LET result == SelectRowid(d.url_list, url)
    IN IF result = None THEN "False"
       ELSE IF \E i \in DOMAIN d.word_location : d.word_location[i].url_id = result
            THEN "True"
            ELSE "None"

\* the truth value Python gives the result of is_indexed
Truthy(v) == v = "True"

\* the loop of add_to_index over enumerate(words)
RECURSIVE add_to_index_loop(_, _, _, _)
add_to_index_loop(d, url_id, words, idx) ==
    IF idx = Len(words) THEN [d EXCEPT !.pending = 0]
    ELSE IF words[idx + 1] \in Range(IGNORE_WORDS)
         THEN add_to_index_loop(d, url_id, words, idx + 1)
         ELSE LET r == se_get_entry_id(d, "word_list", words[idx + 1], TRUE)
                  row == [url_id |-> url_id, word_id |-> r.ret, location |-> idx]
              IN add_to_index_loop([r.db EXCEPT !.word_location = Append(@, row),
                                                !.pending = @ + 1],
                                   url_id, words, idx + 1)

\* add_to_index(url, soup), text being get_text_only(soup)
add_to_index(d, url, text) ==
    IF Truthy(se_is_indexed(d, url)) THEN d
    ELSE LET words == separate_words(text)
             u == se_get_entry_id(d, "url_list", url, TRUE)
         IN add_to_index_loop(u.db, u.ret, words, 0)

\* the loop of add_link_ref over words
RECURSIVE se_add_link_ref_loop(_, _, _, _)
se_add_link_ref_loop(d, link_id, words, idx) ==
    IF idx = Len(words) THEN [d EXCEPT !.pending = 0]
    ELSE IF words[idx + 1] \in Range(IGNORE_WORDS)
         THEN se_add_link_ref_loop(d, link_id, words, idx + 1)
         ELSE LET r == se_get_entry_id(d, "word_list", words[idx + 1], TRUE)
                  row == [link_id |-> link_id, word_id |-> r.ret]
              IN se_add_link_ref_loop([r.db EXCEPT !.link_words = Append(@, row),
                                                   !.pending = @ + 1],
                                      link_id, words, idx + 1)

se_add_link_ref(d, url_from, url_to, link_text) ==
    LET words == separate_words(link_text)
        f == se_get_entry_id(d, "url_list", url_from, TRUE)
        t == se_get_entry_id(f.db, "url_list", url_to, TRUE)
    IN IF f.ret = t.ret THEN t.db
       ELSE se_add_link_ref_loop(
                [t.db EXCEPT !.link = Append(@, [from_id |-> f.ret, to_id |-> t.ret]),
                             !.pending = @ + 1],
                Len(t.db.link) + 1, words, 0)

\* the loop of crawl over the anchors of a page: parsed_links is a generator,
\* so urljoin raises on an href only when the loop gets to it
RECURSIVE crawl_links(_, _, _, _, _)
crawl_links(d, page, anchors, k, new_pages) ==
    IF k > Len(anchors)
    THEN [db |-> [d EXCEPT !.pending = 0], new_pages |-> new_pages, exc |-> "none"]
    ELSE LET link == anchors[k]
             url == Resolve(page, link.href)
         IN IF link.href.kind = "none"
            THEN crawl_links(d, page, anchors, k + 1, new_pages)
            ELSE IF link.href.kind = "bad"
            THEN [db |-> d, new_pages |-> new_pages, exc |-> "ValueError"]
            ELSE IF url.quote
            THEN crawl_links(d, page, anchors, k + 1, new_pages)
            ELSE crawl_links(
                    se_add_link_ref(d, page, url, link.text), page, anchors, k + 1,
                    IF url.scheme \in {"http", "https"} /\ ~Truthy(se_is_indexed(d, url))
                    THEN new_pages \cup {url} ELSE new_pages)

\* the body of the loop of crawl over pages, for a page that was fetched
crawl_page(d, page, doc, new_pages) ==
    crawl_links(add_to_index(d, page, doc.text), page, doc.anchors, 1, new_pages)

\* a page whose text has stop words before, between and after other words,
\* with links that are not valid
WebStop ==
    (Ua :> Page(<<"t","o"," ","p","y"," ","i","n"," ","d","b">>,
                << Anchor(<<"t","h","e"," ","d","b">>, Href("abs", Ub, FALSE)),
                   Anchor(<<"p","y">>, Href("abs", Uquote, FALSE)),
                   Anchor(<<"a"," ","p","y">>, Href("abs", Uftp, FALSE)) >>)) @@
    (Ub :> Page(<<"P","y"," ","i","s">>,
                << Anchor(<<"d","b">>, Href("abs", Ua, FALSE)) >>)) @@
    (Uc :> Page(<<"a">>, <<>>))

SE_WEBS == {WebChain, WebBad, WebStop}

SeInit ==
    /\ db = create_index_tables
    /\ nOps = 0
    /\ lastOp = NoOp
    /\ web \in SE_WEBS
    /\ CrawlIdle

\* crawl(pages, depth) is called: range(depth) is empty for depth <= 0
SeCrawl(pages, d) ==
    /\ pc = "idle"
    /\ pc' = IF d <= 0 THEN "returned" ELSE "loop"
    /\ urls' = IF d <= 0 THEN <<>> ELSE pages
    /\ depth' = d
    /\ seeds0' = Range(pages)
    /\ depth0' = d
    /\ lastOp' = [NoOp EXCEPT !.op = "se_crawl"]
    /\ UNCHANGED <<db, nOps, web, next_urls, frames, exc, extracted, called,
                   passVars, funVars>>

\* one pass of the loop over pages: the fetch, add_to_index, the links
SeCrawlPage(fetched) ==
    /\ pc = "loop"
    /\ urls # <<>>
    /\ LET page == Head(urls)
           r == crawl_page(db, page, web[page], next_urls)
       IN IF ~fetched
          THEN /\ urls' = Tail(urls)
               /\ lastOp' = [NoOp EXCEPT !.op = "se_crawl_page", !.url = page,
                                         !.outcome = "fetch_failed"]
               /\ UNCHANGED <<db, pc, next_urls, exc>>
          ELSE /\ db' = r.db
               /\ next_urls' = r.new_pages
               /\ exc' = r.exc
               /\ pc' = IF r.exc = "none" THEN "loop" ELSE "raised"
               /\ urls' = IF r.exc = "none" THEN Tail(urls) ELSE urls
               /\ lastOp' = [NoOp EXCEPT !.op = "se_crawl_page", !.url = page,
                                         !.was_indexed = Truthy(se_is_indexed(db, page)),
                                         !.outcome = IF r.exc = "none" THEN "indexed"
                                                     ELSE "links_failed"]
    /\ UNCHANGED <<nOps, web, depth, frames, seeds0, depth0, extracted, called,
                   passVars, funVars>>

\* the loop over pages is over: pages = new_pages, the next i of range(depth)
SeCrawlPassEnd(order) ==
    /\ pc = "loop"
    /\ urls = <<>>
    /\ depth' = depth - 1
    /\ lastOp' = [NoOp EXCEPT !.op = "se_crawl_pass_end"]
    /\ IF depth' = 0
       THEN /\ pc' = "returned"
            /\ UNCHANGED <<urls, next_urls>>
       ELSE /\ urls' = order
            /\ next_urls' = {}
            /\ UNCHANGED pc
    /\ UNCHANGED <<db, nOps, web, frames, exc, seeds0, depth0, extracted, called,
                   passVars, funVars>>

SeNext ==
    \/ \E s \in SEEDS, d \in DEPTHS : SeCrawl(s, d)
    \/ \E f \in BOOLEAN : SeCrawlPage(f)
    \/ \E o \in Orders(next_urls) : SeCrawlPassEnd(o)

SeSpec == SeInit /\ [][SeNext]_vars

\* ------------------------------------------------------------------ C31
\* C31: the postings of every URL have the positions 0..n-1, in the order
\* they were inserted.
C31_DensePositions ==
    \A u \in URLS :
        LET P == PostingsOf(db, u)
        IN \A i \in DOMAIN P : P[i].location = i - 1

\* ------------------------------------------------------------------ C32
\* the records of the link table that lead to url
LinksTo(d, url) ==
    {i \in DOMAIN d.link : d.link[i].to_id \in IdsOf(d.url_list, url)}

\* C32: a link whose URL has a single quote or a scheme other than http and
\* https is not put into the next frontier, has no link edge, no link words
\* and no URL record.
C32_InvalidLinksDropped ==
    \A u \in {Uftp, Uquote} :
        /\ u \notin next_urls
        /\ IdsOf(db.url_list, u) = {}
        /\ LinksTo(db, u) = {}
        /\ \A i \in DOMAIN db.link_words : db.link_words[i].link_id \notin LinksTo(db, u)

====
